---------------------------- MODULE Spec2Model ----------------------------
(***************************************************************************)
(* Model of cvxpy/constraints/utilities.py: format_axis, format_elemwise   *)
(* and get_spacing_matrix.                                                 *)
(*                                                                         *)
(* A LinOp expression is kept by its shape and by the value of each of its *)
(* entries.  The value of an entry is a linear form in the entries of the  *)
(* caller's leaf expressions (a coefficient for every leaf entry), so an   *)
(* equation between two entries holds for every numerical value the leaf   *)
(* expressions can take.  Constant matrices have integer entries.          *)
(* Indices are 0-based as in the source; Python lists are TLA+ sequences   *)
(* (1-based) holding those 0-based indices.                                *)
(***************************************************************************)
EXTENDS Integers, Sequences, FiniteSets, TLC

VARIABLES pc, op, args, result

vars == <<pc, op, args, result>>

(* Bounds of the model. *)
MaxDim == 2
MaxN == 3
MaxSpacing == 3
MaxRows == MaxSpacing * MaxDim + 1

(***************************************************************************)
(* Linear forms over the leaf entries                                      *)
(***************************************************************************)
MaxLeaf == IF MaxN > 2 THEN MaxN - 1 ELSE 1

Leaves == (0 .. MaxLeaf) \X (0 .. MaxDim - 1) \X (0 .. MaxDim - 1)

ZeroForm == [l \in Leaves |-> 0]

Unit(n, i, j) == [l \in Leaves |-> IF l = <<n, i, j>> THEN 1 ELSE 0]

AddForm(f, g) == [l \in Leaves |-> f[l] + g[l]]

ScaleForm(k, f) == [l \in Leaves |-> k * f[l]]

Idx(shape) == (0 .. shape[1] - 1) \X (0 .. shape[2] - 1)

(* A raised exception, and a normal return of a list of constraints. *)
Raise(e) == [ok |-> FALSE, error |-> e]

Return(constrs) == [ok |-> TRUE, constrs |-> constrs]

(* Leaf expressions handed in by the caller. *)
LeafMatrix(n, shape) ==
    [ok |-> TRUE, shape |-> shape,
     val |-> [p \in Idx(shape) |-> Unit(n, p[1], p[2])]]

LeafVector(n, m) ==
    [ok |-> TRUE, shape |-> <<m>>, val |-> [k \in 0 .. m - 1 |-> Unit(n, k, 0)]]

LeafScalar(n) == [ok |-> TRUE, shape |-> <<>>, val |-> Unit(n, 0, 0)]

(***************************************************************************)
(* scipy.sparse.coo_matrix((val_arr, (row_arr, col_arr)), shape).tocsc():  *)
(* an index outside the shape is rejected with ValueError; entries given   *)
(* for the same position are summed.                                       *)
(***************************************************************************)
RECURSIVE SumAt(_, _, _, _, _)
SumAt(val_arr, row_arr, col_arr, p, k) ==
    IF k = 0 THEN 0
    ELSE SumAt(val_arr, row_arr, col_arr, p, k - 1)
         + (IF row_arr[k] = p[1] /\ col_arr[k] = p[2] THEN val_arr[k] ELSE 0)

coo_matrix(val_arr, row_arr, col_arr, shape) ==
    IF \E k \in 1 .. Len(row_arr) :
          \/ row_arr[k] < 0 \/ row_arr[k] >= shape[1]
          \/ col_arr[k] < 0 \/ col_arr[k] >= shape[2]
    THEN Raise("ValueError")
    ELSE [ok |-> TRUE, shape |-> shape,
          val |-> [p \in Idx(shape) |->
                      SumAt(val_arr, row_arr, col_arr, p, Len(val_arr))]]

(***************************************************************************)
(* cvxpy.lin_ops.lin_utils (lu): the composition layer                     *)
(***************************************************************************)
create_const(mat, shape) == [ok |-> TRUE, shape |-> shape, val |-> mat.val]

transpose(X) ==
    [ok |-> TRUE, shape |-> <<X.shape[2], X.shape[1]>>,
     val |-> [p \in Idx(<<X.shape[2], X.shape[1]>>) |-> X.val[<<p[2], p[1]>>]]]

Size(shape) ==
    IF Len(shape) = 0 THEN 1
    ELSE IF Len(shape) = 1 THEN shape[1]
    ELSE shape[1] * shape[2]

(* Entry k of an expression in column-major order. *)
Flat(e, k) ==
    IF Len(e.shape) = 0 THEN e.val
    ELSE IF Len(e.shape) = 1 THEN e.val[k]
    ELSE e.val[<<k % e.shape[1], k \div e.shape[1]>>]

reshape(e, shape) ==
    IF Size(e.shape) # Size(shape) THEN Raise("ShapeMismatch")
    ELSE [ok |-> TRUE, shape |-> shape,
          val |-> [p \in Idx(shape) |-> Flat(e, p[1] + shape[1] * p[2])]]

RECURSIVE Dot(_, _, _, _, _)
Dot(lh, rh, i, j, k) ==
    IF k = 0 THEN ZeroForm
    ELSE AddForm(Dot(lh, rh, i, j, k - 1),
                 ScaleForm(lh.val[<<i, k - 1>>], rh.val[<<k - 1, j>>]))

mul_expr(lh, rh) ==
    IF Len(lh.shape) # 2 \/ Len(rh.shape) # 2 THEN Raise("ShapeMismatch")
    ELSE IF lh.shape[2] # rh.shape[1] THEN Raise("ShapeMismatch")
    ELSE [ok |-> TRUE, shape |-> <<lh.shape[1], rh.shape[2]>>,
          val |-> [p \in Idx(<<lh.shape[1], rh.shape[2]>>) |->
                      Dot(lh, rh, p[1], p[2], lh.shape[2])]]

RECURSIVE SumTerms(_, _, _)
SumTerms(terms, p, k) ==
    IF k = 0 THEN ZeroForm
    ELSE AddForm(SumTerms(terms, p, k - 1), terms[k].val[p])

sum_expr(terms) ==
    IF \E k \in 1 .. Len(terms) : terms[k].shape # terms[1].shape
    THEN Raise("ShapeMismatch")
    ELSE [ok |-> TRUE, shape |-> terms[1].shape,
          val |-> [p \in Idx(terms[1].shape) |-> SumTerms(terms, p, Len(terms))]]

create_geq(expr) == [type |-> "geq", expr |-> expr]

(* The first exception raised while a list is built in order, if any. *)
FirstError(seq) ==
    LET bad == {k \in 1 .. Len(seq) : ~seq[k].ok}
    IN  seq[CHOOSE k \in bad : \A h \in bad : k <= h]

AnyError(seq) == \E k \in 1 .. Len(seq) : ~seq[k].ok

(***************************************************************************)
(* get_spacing_matrix(shape, spacing, offset)                              *)
(***************************************************************************)
(* Variants: the offset left out of the row index; the row and column lists *)
(* handed over in the other order; the row index one too far.              *)
get_spacing_matrix_no_offset(shape, spacing, offset) ==
    LET val_arr == [k \in 1 .. shape[2] |-> 1]
        row_arr == [k \in 1 .. shape[2] |-> spacing * (k - 1)]
        col_arr == [k \in 1 .. shape[2] |-> k - 1]
        mat == coo_matrix(val_arr, row_arr, col_arr, shape)
    IN  IF ~mat.ok THEN mat ELSE create_const(mat, shape)

get_spacing_matrix_swapped(shape, spacing, offset) ==
    LET val_arr == [k \in 1 .. shape[2] |-> 1]
        row_arr == [k \in 1 .. shape[2] |-> spacing * (k - 1) + offset]
        col_arr == [k \in 1 .. shape[2] |-> k - 1]
        mat == coo_matrix(val_arr, col_arr, row_arr, shape)
    IN  IF ~mat.ok THEN mat ELSE create_const(mat, shape)

get_spacing_matrix_off_by_one(shape, spacing, offset) ==
    LET val_arr == [k \in 1 .. shape[2] |-> 1]
        row_arr == [k \in 1 .. shape[2] |-> spacing * (k - 1) + offset + 1]
        col_arr == [k \in 1 .. shape[2] |-> k - 1]
        mat == coo_matrix(val_arr, row_arr, col_arr, shape)
    IN  IF ~mat.ok THEN mat ELSE create_const(mat, shape)

get_spacing_matrix(shape, spacing, offset) ==
    LET val_arr == [k \in 1 .. shape[2] |-> 1]
        row_arr == [k \in 1 .. shape[2] |-> spacing * (k - 1) + offset]
        col_arr == [k \in 1 .. shape[2] |-> k - 1]
        mat == coo_matrix(val_arr, row_arr, col_arr, shape)
    IN  IF ~mat.ok THEN mat ELSE create_const(mat, shape)

(***************************************************************************)
(* format_elemwise(vars_)                                                  *)
(***************************************************************************)
(* Variant: every expression placed at offset 0. *)
elemwise_term_offset0(vars_, mat_shape, spacing, i) ==
    LET mat == get_spacing_matrix(mat_shape, spacing, 0)
    IN  IF ~mat.ok THEN mat ELSE mul_expr(mat, vars_[i + 1])

elemwise_term(vars_, mat_shape, spacing, i) ==
    LET mat == get_spacing_matrix(mat_shape, spacing, i)
    IN  IF ~mat.ok THEN mat ELSE mul_expr(mat, vars_[i + 1])

(* Variant: the list of terms overwritten by each product, not appended to. *)
format_elemwise_last_term(vars_) ==
    LET spacing == Len(vars_)
        mat_shape == <<spacing * vars_[1].shape[1], vars_[1].shape[1]>>
        terms == <<elemwise_term(vars_, mat_shape, spacing, spacing - 1)>>
    IN  IF AnyError(terms) THEN FirstError(terms)
        ELSE LET total == sum_expr(terms)
             IN  IF ~total.ok THEN total ELSE Return(<<create_geq(total)>>)

format_elemwise(vars_) ==
    LET spacing == Len(vars_)
        mat_shape == <<spacing * vars_[1].shape[1], vars_[1].shape[1]>>
        terms == [k \in 1 .. spacing |->
                     elemwise_term(vars_, mat_shape, spacing, k - 1)]
    IN  IF AnyError(terms) THEN FirstError(terms)
        ELSE LET total == sum_expr(terms)
             IN  IF ~total.ok THEN total ELSE Return(<<create_geq(total)>>)

(***************************************************************************)
(* format_axis(t, X, axis)                                                 *)
(***************************************************************************)
(* Variant: the transpose for axis = 1 left out. *)
reduce_to_columns_never(X, axis) == X

reduce_to_columns(X, axis) == IF axis = 1 THEN transpose(X) ELSE X

make_t_mat(cone_size) ==
    LET mat_shape == <<cone_size, 1>>
        mat == coo_matrix(<<1>>, <<0>>, <<0>>, mat_shape)
    IN  IF ~mat.ok THEN mat ELSE create_const(mat, mat_shape)

(* Variant: a 1-D leader left as it is (the else branch left out). *)
make_t_vec_keep_vector(t) ==
    IF t.shape = <<>> THEN reshape(t, <<1, 1>>) ELSE t

make_t_vec(t) ==
    IF t.shape = <<>> THEN reshape(t, <<1, 1>>)
    ELSE reshape(t, <<1, t.shape[1]>>)

(* Variant: the rows of the shifted identity start at 0. *)
make_X_mat_unshifted(cone_size, rows) ==
    LET mat_shape == <<cone_size, rows>>
        val_arr == [k \in 1 .. cone_size - 1 |-> 1]
        row_arr == [k \in 1 .. cone_size - 1 |-> k - 1]
        col_arr == [k \in 1 .. cone_size - 1 |-> k - 1]
        mat == coo_matrix(val_arr, row_arr, col_arr, mat_shape)
    IN  IF ~mat.ok THEN mat ELSE create_const(mat, mat_shape)

make_X_mat(cone_size, rows) ==
    LET mat_shape == <<cone_size, rows>>
        val_arr == [k \in 1 .. cone_size - 1 |-> 1]
        row_arr == [k \in 1 .. cone_size - 1 |-> k]
        col_arr == [k \in 1 .. cone_size - 1 |-> k - 1]
        mat == coo_matrix(val_arr, row_arr, col_arr, mat_shape)
    IN  IF ~mat.ok THEN mat ELSE create_const(mat, mat_shape)

(* Variant: the list of terms overwritten by the X product. *)
axis_terms_X_only(t, Xc) ==
    LET cone_size == 1 + Xc.shape[1]
        X_mat == make_X_mat(cone_size, Xc.shape[1])
        X_term == IF ~X_mat.ok THEN X_mat ELSE mul_expr(X_mat, Xc)
    IN  <<X_term>>

axis_terms(t, Xc) ==
    LET cone_size == 1 + Xc.shape[1]
        t_mat == make_t_mat(cone_size)
        t_vec == make_t_vec(t)
        t_term == IF ~t_mat.ok THEN t_mat
                  ELSE IF ~t_vec.ok THEN t_vec
                  ELSE mul_expr(t_mat, t_vec)
        X_mat == make_X_mat(cone_size, Xc.shape[1])
        X_term == IF ~X_mat.ok THEN X_mat ELSE mul_expr(X_mat, Xc)
    IN  <<t_term, X_term>>

format_axis(t, X, axis) ==
    LET terms == axis_terms(t, reduce_to_columns(X, axis))
    IN  IF AnyError(terms) THEN FirstError(terms)
        ELSE LET total == sum_expr(terms)
             IN  IF ~total.ok THEN total ELSE Return(<<create_geq(total)>>)

(***************************************************************************)
(* The callers: one call of one of the three functions                     *)
(***************************************************************************)
Dims == 1 .. MaxDim

Shapes == {<<r, c>> : r \in Dims, c \in Dims}

Leaders == {LeafScalar(0)} \cup {LeafVector(0, m) : m \in Dims}

Matrices == {LeafMatrix(1, s) : s \in Shapes}

ShapeSeqs ==
    UNION {[1 .. n -> Shapes] : n \in 1 .. MaxN}

VarLists == {[k \in 1 .. Len(ss) |-> LeafMatrix(k - 1, ss[k])] : ss \in ShapeSeqs}

Pending == Raise("pending")

Init ==
    /\ pc = "ready"
    /\ result = Pending
    /\ \/ /\ op = "format_axis"
          /\ args \in [t : Leaders, X : Matrices, axis : {0, 1}]
       \/ /\ op = "format_elemwise"
          /\ args \in [vars_ : VarLists]
       \/ /\ op = "get_spacing_matrix"
          /\ args \in [shape : (1 .. MaxRows) \X Dims,
                       spacing : 0 .. MaxSpacing,
                       offset : 0 .. MaxSpacing]

CallFormatAxis ==
    /\ pc = "ready" /\ op = "format_axis"
    /\ result' = format_axis(args.t, args.X, args.axis)
    /\ pc' = "done"
    /\ UNCHANGED <<op, args>>

CallFormatElemwise ==
    /\ pc = "ready" /\ op = "format_elemwise"
    /\ result' = format_elemwise(args.vars_)
    /\ pc' = "done"
    /\ UNCHANGED <<op, args>>

CallGetSpacingMatrix ==
    /\ pc = "ready" /\ op = "get_spacing_matrix"
    /\ result' = get_spacing_matrix(args.shape, args.spacing, args.offset)
    /\ pc' = "done"
    /\ UNCHANGED <<op, args>>

Next == CallFormatAxis \/ CallFormatElemwise \/ CallGetSpacingMatrix

Spec == Init /\ [][Next]_vars


(***************************************************************************)
(* Properties                                                              *)
(***************************************************************************)
Done(o) == pc = "done" /\ op = o

SpacingRows == args.shape[1]

SpacingCols == args.shape[2]

(* The largest row index get_spacing_matrix computes for the call. *)
LastRow == args.spacing * (SpacingCols - 1) + args.offset

(* result is the matrix of the given shape with 1 at (spacing*c + offset, c) *)
(* for every column c and 0 everywhere else.                               *)
IsSelector ==
    /\ result.ok
    /\ result.shape = args.shape
    /\ \A p \in Idx(args.shape) :
          result.val[p] = IF p[1] = args.spacing * p[2] + args.offset THEN 1 ELSE 0
    /\ Cardinality({p \in Idx(args.shape) : result.val[p] # 0}) = SpacingCols

(* C1: for k >= 1, spacing >= 1 and 0 <= offset < spacing,                 *)
(* get_spacing_matrix((spacing*k, k), spacing, offset) returns a matrix of *)
(* shape (spacing*k, k) with 1.0 at (spacing*c + offset, c) for every      *)
(* column c and zero elsewhere: one nonzero per column, k in total.        *)
C1_SpacingLayout ==
    (/\ Done("get_spacing_matrix")
     /\ args.spacing >= 1 /\ args.offset < args.spacing
     /\ SpacingRows = args.spacing * SpacingCols)
    => IsSelector

C1_Witness ==
    /\ Done("get_spacing_matrix")
    /\ args.shape = <<4, 2>> /\ args.spacing = 2 /\ args.offset = 1
    /\ result.ok /\ result.val[<<3, 1>>] = 1 /\ result.val[<<1, 0>>] = 1

(* The N expressions all have shape (R, 1). *)
ColumnVectors ==
    \A k \in 1 .. Len(args.vars_) :
        /\ args.vars_[k].shape = args.vars_[1].shape
        /\ args.vars_[k].shape[2] = 1

(* C2: for N expressions of identical shape (R, 1), the expression wrapped *)
(* by format_elemwise is a vector of length N*R whose entry r*N + i is     *)
(* entry r of expression i, with nothing lost, duplicated or added.        *)
C2_ElemwiseInterleave ==
    (Done("format_elemwise") /\ ColumnVectors)
    => LET N == Len(args.vars_)
           R == args.vars_[1].shape[1]
       IN  /\ result.ok
           /\ Len(result.constrs) = 1
           /\ result.constrs[1].type = "geq"
           /\ result.constrs[1].expr.shape = <<N * R, 1>>
           /\ \A r \in 0 .. R - 1 : \A i \in 0 .. N - 1 :
                 result.constrs[1].expr.val[<<r * N + i, 0>>]
                    = args.vars_[i + 1].val[<<r, 0>>]

C2_Witness ==
    /\ Done("format_elemwise") /\ ColumnVectors
    /\ Len(args.vars_) = 3 /\ args.vars_[1].shape = <<2, 1>>
    /\ result.ok
    /\ result.constrs[1].expr.val[<<4, 0>>] = Unit(1, 1, 0)

(* C3: for axis = 0, X of shape (p, m) and a 1-D leader t of length m, the *)
(* expression wrapped by format_axis has shape (1 + p, m); column j holds  *)
(* t[j] at row 0 and X[i, j] at row 1 + i.                                 *)
C3_AxisColumns ==
    (/\ Done("format_axis") /\ args.axis = 0
     /\ args.t.shape = <<args.X.shape[2]>>)
    => LET p == args.X.shape[1]
           m == args.X.shape[2]
       IN  /\ result.ok
           /\ Len(result.constrs) = 1
           /\ result.constrs[1].type = "geq"
           /\ result.constrs[1].expr.shape = <<1 + p, m>>
           /\ \A j \in 0 .. m - 1 :
                 /\ result.constrs[1].expr.val[<<0, j>>] = args.t.val[j]
                 /\ \A i \in 0 .. p - 1 :
                       result.constrs[1].expr.val[<<1 + i, j>>] = args.X.val[<<i, j>>]

C3_Witness ==
    /\ Done("format_axis") /\ args.axis = 0
    /\ args.X.shape = <<2, 2>> /\ args.t.shape = <<2>>
    /\ result.ok
    /\ result.constrs[1].expr.val[<<0, 1>>] = Unit(0, 1, 0)
    /\ result.constrs[1].expr.val[<<2, 1>>] = Unit(1, 1, 1)

(* C4: format_axis(t, X, axis=1) gives the result of                       *)
(* format_axis(t, transpose(X), axis=0): the same shape and entries, or    *)
(* the same failure.                                                       *)
C4_AxisOneIsTranspose ==
    (Done("format_axis") /\ args.axis = 1)
    => result = format_axis(args.t, transpose(args.X), 0)

C4_Witness ==
    /\ Done("format_axis") /\ args.axis = 1
    /\ args.X.shape = <<1, 2>> /\ args.t.shape = <<1>>
    /\ result.ok
    /\ result.constrs[1].expr.shape = <<3, 1>>
    /\ result.constrs[1].expr.val[<<2, 0>>] = Unit(1, 0, 1)

(* The scalar leader and the 1-D leader of length 1 holding the same value. *)
AsScalar(t) == [ok |-> TRUE, shape |-> <<>>, val |-> t.val[0]]

AsVector1(t) == [ok |-> TRUE, shape |-> <<1>>, val |-> [k \in {0} |-> t.val]]

(* C5: a scalar leader and a 1-D leader of length 1 with the same value    *)
(* are treated alike: both are reshaped to (1, 1), and format_axis gives   *)
(* equal results for them with every X and axis.                           *)
C5_ScalarLikeLengthOne ==
    /\ (Done("format_axis") /\ args.t.shape = <<1>>)
       => /\ make_t_vec(args.t).ok /\ make_t_vec(args.t).shape = <<1, 1>>
          /\ make_t_vec(args.t) = make_t_vec(AsScalar(args.t))
          /\ result = format_axis(AsScalar(args.t), args.X, args.axis)
    /\ (Done("format_axis") /\ args.t.shape = <<>>)
       => /\ make_t_vec(args.t).ok /\ make_t_vec(args.t).shape = <<1, 1>>
          /\ make_t_vec(args.t) = make_t_vec(AsVector1(args.t))
          /\ result = format_axis(AsVector1(args.t), args.X, args.axis)

C5_Witness ==
    /\ Done("format_axis") /\ args.t.shape = <<1>>
    /\ args.X.shape = <<2, 1>> /\ args.axis = 0
    /\ result.ok
    /\ result.constrs[1].expr.val[<<0, 0>>] = Unit(0, 0, 0)

(* C6: format_elemwise called with at least two expressions of different   *)
(* shapes fails with ShapeMismatch and returns no constraint.              *)
C6_ElemwiseMismatch ==
    (/\ Done("format_elemwise")
     /\ \E h, k \in 1 .. Len(args.vars_) : args.vars_[h].shape # args.vars_[k].shape)
    => /\ ~result.ok
       /\ result.error = "ShapeMismatch"

C6_Witness ==
    /\ Done("format_elemwise")
    /\ Len(args.vars_) = 2
    /\ args.vars_[1].shape = <<2, 1>> /\ args.vars_[2].shape = <<2, 2>>
    /\ ~result.ok /\ result.error = "ShapeMismatch"

(* The length of the leader, and the number of cones of the call. *)
LeaderLen == IF args.t.shape = <<>> THEN 1 ELSE args.t.shape[1]

Cones == IF args.axis = 1 THEN args.X.shape[1] ELSE args.X.shape[2]

(* C7: format_axis called with a leader whose length differs from the      *)
(* number of cones (the columns of X after the axis = 1 transpose) ends in *)
(* a shape error and returns no constraint, for both axes and for a scalar *)
(* leader with more than one cone.                                         *)
C7_AxisLeaderMismatch ==
    (Done("format_axis") /\ LeaderLen # Cones)
    => /\ ~result.ok
       /\ result.error = "ShapeMismatch"

C7_Witness ==
    /\ Done("format_axis") /\ args.axis = 1
    /\ args.t.shape = <<2>> /\ args.X.shape = <<1, 2>>
    /\ ~result.ok /\ result.error = "ShapeMismatch"

(* C8 as stated: get_spacing_matrix called with offset >= spacing fails    *)
(* with InvalidSpacing and returns no matrix, for every shape.             *)
C8_InvalidSpacingRaised ==
    (Done("get_spacing_matrix") /\ args.offset >= args.spacing)
    => /\ ~result.ok
       /\ result.error = "InvalidSpacing"

(* C8 amended: get_spacing_matrix makes no check of offset against         *)
(* spacing.  With offset >= spacing it returns the matrix with 1.0 at      *)
(* (spacing*c + offset, c) for every column c when the shape holds every   *)
(* such row, and otherwise fails with the ValueError of the sparse matrix  *)
(* constructor.                                                            *)
C8_NoSpacingCheck ==
    (Done("get_spacing_matrix") /\ args.offset >= args.spacing)
    => IF LastRow < SpacingRows
       THEN IsSelector
       ELSE ~result.ok /\ result.error = "ValueError"

C8_Witness ==
    /\ Done("get_spacing_matrix")
    /\ args.spacing = 2 /\ args.offset = 3 /\ args.shape = <<6, 2>>
    /\ result.ok /\ result.val[<<5, 1>>] = 1 /\ result.val[<<3, 0>>] = 1

(* C10 as stated: get_spacing_matrix called with offset < spacing and a    *)
(* shape with rows # spacing * cols returns a matrix for every such shape, *)
(* also when rows is smaller than the largest computed row index.          *)
C10_NeverRejected ==
    (/\ Done("get_spacing_matrix") /\ args.offset < args.spacing
     /\ SpacingRows # args.spacing * SpacingCols)
    => result.ok

(* C10 amended: with offset < spacing and rows # spacing * cols, the call  *)
(* returns a matrix exactly when rows exceeds the largest computed row     *)
(* index spacing*(cols-1) + offset; when it does not, the sparse matrix    *)
(* constructor rejects the call with ValueError.                           *)
C10_RejectedWhenRowTooLarge ==
    (/\ Done("get_spacing_matrix") /\ args.offset < args.spacing
     /\ SpacingRows # args.spacing * SpacingCols)
    => IF LastRow < SpacingRows
       THEN IsSelector
       ELSE ~result.ok /\ result.error = "ValueError"

C10_Witness ==
    /\ Done("get_spacing_matrix")
    /\ args.spacing = 2 /\ args.offset = 1 /\ args.shape = <<3, 2>>
    /\ ~result.ok /\ result.error = "ValueError"

=============================================================================
